---- MODULE Spec2Model ----
(***************************************************************************)
(* SEGB container fixtures: the version 1 and version 2 writers of         *)
(* generate_test_files.py, byte for byte, and the reader the format        *)
(* description gives for them.                                             *)
(***************************************************************************)
EXTENDS Integers, Sequences, FiniteSets, TLC

\* ------------------------------------------------------------------ bounds

\* Most records in one run of the byte-level model.
MaxRecords == 2
\* Most characters in the texts of one run, all records together.
MaxChars == 2
\* Largest size the padding calculation is applied to in SpecPad.
MaxSize == 63
\* Most records in one run of the length-level model.
MaxBigRecords == 2

\* Code points texts are made of: NUL, whose encoding is the padding byte, and
\* U+00E9, whose encoding takes two bytes.
TextChars == {0, 233}
\* 2001-01-01 00:00:00 UTC in seconds since 1970-01-01, the unit dates are in.
BaseDate == 978307200
\* Dates records carry: one second before the base date, three seconds after.
Dates == {BaseDate - 1, BaseDate + 3}
\* Instants the clock returns for the creation timestamp.
ClockTimes == {BaseDate + 6}

\* ------------------------------------------------------- integer primitives

\* 2^k for 0 <= k <= 30.
RECURSIVE Pow2(_)
Pow2(k) == IF k = 0 THEN 1 ELSE 2 * Pow2(k - 1)

\* A Python int as two limbs of 16 bits, hi unbounded: value = hi * 65536 + lo.
Big(hi, lo) == [hi |-> hi, lo |-> lo]

ToBig(n) == Big(n \div 65536, n % 65536)

BigAdd(a, b) ==
    Big(a.hi + b.hi + ((a.lo + b.lo) \div 65536), (a.lo + b.lo) % 65536)

\* a % m for an m that divides 65536.
BigMod(a, m) == a.lo % m

\* U32Ok gone wrong: no range check, so PackU32 keeps the low 32 bits.
U32Unchecked(a) == TRUE

\* The range struct.pack('<I', a) accepts: 0 <= a <= 4294967295; outside it
\* struct.error is raised.
U32Ok(a) == a.hi >= 0 /\ a.hi < 65536

\* struct.pack('<I', a): four bytes, least significant first.
PackU32(a) ==
    << a.lo % 256, a.lo \div 256, a.hi % 256, (a.hi \div 256) % 256 >>

\* struct.pack('<i', v) for -65536 <= v < 65536, in two's complement.
PackI32(v) == IF v >= 0 THEN PackU32(ToBig(v)) ELSE PackU32(Big(65535, 65536 + v))

\* 0x01, the state Written.
Written == 1

\* The bytes of a set of bit positions, least significant byte first.
ByteOfBits(bits, k) ==
    LET RECURSIVE Sum(_)
        Sum(j) == IF j = 8 THEN 0
                  ELSE (IF 8 * k + j \in bits THEN Pow2(j) ELSE 0) + Sum(j + 1)
    IN Sum(0)

BytesOfBits(bits, n) == [k \in 1..n |-> ByteOfBits(bits, k - 1)]

\* The bit positions set in byte b, moved up by shift.
BitsOfByte(b, shift) == { shift + j : j \in { j \in 0..7 : (b \div Pow2(j)) % 2 = 1 } }

\* ------------------------------------------------------------------- crc32

\* The reflected CRC-32 polynomial 0xEDB88320 as its set of bit positions.
Crc32Poly == {31, 30, 29, 27, 26, 24, 23, 21, 20, 19, 15, 9, 8, 5}

SymDiff(a, b) == (a \cup b) \ (a \cap b)

\* The register moved right by one bit.
Crc32Shift(c) == { j - 1 : j \in c \ {0} }

\* n bits of the register: shift right, xor the polynomial in when a 1 left.
RECURSIVE Crc32Shifts(_, _)
Crc32Shifts(c, n) ==
    IF n = 0 THEN c
    ELSE IF 0 \in c
    THEN Crc32Shifts(SymDiff(Crc32Shift(c), Crc32Poly), n - 1)
    ELSE Crc32Shifts(Crc32Shift(c), n - 1)

RECURSIVE Crc32Update(_, _, _)
Crc32Update(c, data, k) ==
    IF k > Len(data) THEN c
    ELSE Crc32Update(Crc32Shifts(SymDiff(c, BitsOfByte(data[k], 0)), 8), data, k + 1)

\* struct.pack('<I', binascii.crc32(data_bytes) & 0xffffffff): the register
\* starts all ones and is complemented at the end.
Crc32(data) == BytesOfBits((0..31) \ Crc32Update(0..31, data, 1), 4)

\* ------------------------------------------------------------------ floats

\* floor(log2 n) for n >= 1.
RECURSIVE Log2(_)
Log2(n) == IF n <= 1 THEN 0 ELSE 1 + Log2(n \div 2)

\* struct.pack('<d', t) for a whole number of seconds t, |t| < 2^31: the
\* IEEE-754 binary64 bits (sign 63, exponent 52..62, fraction 0..51).
F64Bits(t) ==
    LET m == IF t < 0 THEN -t ELSE t
        e == Log2(m)
        sign == IF t < 0 THEN {63} ELSE {}
        expo == { 52 + j : j \in { j \in 0..10 : ((1023 + e) \div Pow2(j)) % 2 = 1 } }
        frac == { 52 - e + j : j \in { j \in 0..30 : j < e /\ (m \div Pow2(j)) % 2 = 1 } }
    IN IF t = 0 THEN {} ELSE sign \cup expo \cup frac

PackF64(t) == BytesOfBits(F64Bits(t), 8)

\* ----------------------------------------------------------------- padding

\* PaddingNeeded gone wrong: without the outer modulo an aligned size is
\* padded by a whole block.
PaddingNext(size, alignment) == alignment - (size % alignment)

\* (alignment - (len(entry) % alignment)) % alignment
PaddingNeeded(size, alignment) == (alignment - (size % alignment)) % alignment

Zeros(n) == [k \in 1..n |-> 0]

Magic == << 83, 69, 71, 66 >>

\* b''.join(entries)
RECURSIVE Join(_)
Join(ss) == IF ss = << >> THEN << >> ELSE Head(ss) \o Join(Tail(ss))

\* Python's buf[from:to].
Slice(buf, from, to) == SubSeq(buf, from + 1, to)

RECURSIVE SumLen(_)
SumLen(ss) == IF ss = << >> THEN 0 ELSE Len(Head(ss)) + SumLen(Tail(ss))

\* ------------------------------------------------------------------ inputs

RECURSIVE SeqsUpTo(_, _)
SeqsUpTo(S, n) ==
    IF n = 0 THEN { << >> }
    ELSE LET shorter == SeqsUpTo(S, n - 1)
         IN shorter \cup { Append(s, e) : s \in shorter, e \in S }

\* The elements entries_data may hold.
RecordChoices == [text : SeqsUpTo(TextChars, MaxChars), date : Dates]

RECURSIVE TotalChars(_)
TotalChars(records) ==
    IF records = << >> THEN 0 ELSE Len(Head(records).text) + TotalChars(Tail(records))

\* The values entries_data may have.
Inputs ==
    { records \in UNION { [1..n -> RecordChoices] : n \in 0..MaxRecords } :
        TotalChars(records) <= MaxChars }

\* The UTF-8 bytes of one code point (surrogates are not texts).
Utf8(c) ==
    IF c < 128 THEN << c >>
    ELSE IF c < 2048 THEN << 192 + (c \div 64), 128 + (c % 64) >>
    ELSE IF c < 65536
    THEN << 224 + (c \div 4096), 128 + ((c \div 64) % 64), 128 + (c % 64) >>
    ELSE << 240 + (c \div 262144), 128 + ((c \div 4096) % 64),
            128 + ((c \div 64) % 64), 128 + (c % 64) >>

\* text.encode('utf-8')
RECURSIVE Encode(_)
Encode(text) == IF text = << >> THEN << >> ELSE Utf8(Head(text)) \o Encode(Tail(text))

\* get_timestamp(dt): the seconds from the base date to dt.
GetTimestamp(dt) == dt - BaseDate

\* data_bytes and timestamp of one element of entries_data.
DataBytes(entry_data) == Encode(entry_data.text)
Timestamp(entry_data) == GetTimestamp(entry_data.date)

\* ------------------------------------------------------------ the writers

\* HeaderV1Init gone wrong: the magic at offset 0 instead of 0x34.
HeaderV1MagicFirst == Magic \o Zeros(52)

\* header_v1 = bytearray(0x38); header_v1[0x34:0x38] = b'SEGB'
HeaderV1Init == Zeros(52) \o Magic

\* EntryHeaderV1 gone wrong: the checksum field is never filled in.
EntryHeaderV1NoCrc(data_bytes, timestamp) ==
    PackU32(ToBig(Len(data_bytes))) \o PackI32(Written) \o PackF64(timestamp)
        \o PackF64(timestamp) \o Zeros(4) \o Zeros(4)

\* The 32-byte entry header of version 1.
EntryHeaderV1(data_bytes, timestamp) ==
    PackU32(ToBig(Len(data_bytes))) \o PackI32(Written) \o PackF64(timestamp)
        \o PackF64(timestamp) \o Crc32(data_bytes) \o Zeros(4)

\* Padded gone wrong: the padding is the remainder, not its complement.
PaddedByRemainder(entry, alignment) == entry \o Zeros(Len(entry) % alignment)

\* entry += b'\x00' * padding_needed
Padded(entry, alignment) == entry \o Zeros(PaddingNeeded(Len(entry), alignment))

EntryV1(rec) == Padded(EntryHeaderV1(DataBytes(rec), Timestamp(rec)) \o DataBytes(rec), 8)

\* Advance gone wrong: the 8 bytes before the data are not counted.
AdvanceDataOnly(offset, entry) == offset + Len(entry) - 8

\* current_offset += len(entry)
Advance(offset, entry) == offset + Len(entry)

\* HeaderV2 gone wrong: entry_count is left zero.
HeaderV2NoCount(n, now) ==
    Magic \o Zeros(4) \o PackF64(GetTimestamp(now)) \o Zeros(16)

\* The 32-byte header of version 2.
HeaderV2(n, now) ==
    Magic \o PackU32(ToBig(n)) \o PackF64(GetTimestamp(now)) \o Zeros(16)

EntryV2(rec) == Padded(Crc32(DataBytes(rec)) \o Zeros(4) \o DataBytes(rec), 4)

\* EntryInfo gone wrong: the offset is taken after the entry was added.
EntryInfoAfter(offset, entry, rec) ==
    [offset |-> offset + Len(entry), state |-> Written, timestamp |-> Timestamp(rec)]

\* The dict appended to entry_offsets_v2.
EntryInfo(offset, entry, rec) ==
    [offset |-> offset, state |-> Written, timestamp |-> Timestamp(rec)]

\* The 16 bytes one entry_info adds to trailer_v2.
TrailerRecord(info) ==
    PackU32(ToBig(info.offset)) \o PackI32(info.state) \o PackF64(info.timestamp)

RECURSIVE TrailerV2(_)
TrailerV2(infos) ==
    IF infos = << >> THEN << >> ELSE TrailerRecord(Head(infos)) \o TrailerV2(Tail(infos))

\* -------------------------------------------------------------- the reader

\* decode_u32_le, as limbs.
UnpackU32(b) == Big(b[3] + 256 * b[4], b[1] + 256 * b[2])

\* decode_f64_le: the binary64 bits of eight bytes.
UnpackF64(b) == UNION { BitsOfByte(b[k], 8 * (k - 1)) : k \in 1..8 }

\* decode_i32_le of a state field, as the enum {Written, Other}.
UnpackState(b) == IF b = << 1, 0, 0, 0 >> THEN "Written" ELSE "Other"

Failure(error) == [error |-> error, records |-> << >>]

\* Version 1 entries from offset off on, up to end_offset.
RECURSIVE DecodeV1From(_, _, _, _)
DecodeV1From(buf, end_offset, off, acc) ==
    IF end_offset.hi = 0 /\ end_offset.lo <= off
    THEN [error |-> "none", records |-> acc]
    ELSE IF off + 32 > Len(buf)
    THEN Failure("Truncated")
    ELSE LET length == UnpackU32(Slice(buf, off, off + 4))
         IN IF length.hi > 0 \/ off + 32 + length.lo > Len(buf)
            THEN Failure("Truncated")
            ELSE LET data == Slice(buf, off + 32, off + 32 + length.lo)
                     rec == [data |-> data,
                             state |-> UnpackState(Slice(buf, off + 4, off + 8)),
                             timestamp_primary |-> UnpackF64(Slice(buf, off + 8, off + 16)),
                             timestamp_secondary |-> UnpackF64(Slice(buf, off + 16, off + 24)),
                             valid |-> Crc32(data) = Slice(buf, off + 24, off + 28)]
                     past == off + 32 + length.lo
                 IN DecodeV1From(buf, end_offset, past + PaddingNeeded(past, 8),
                                 Append(acc, rec))

\* Version 1 decode: BadMagic, Truncated, or the records, each with its
\* validity flag.
DecodeV1(buf) ==
    IF Len(buf) < 56 \/ Slice(buf, 52, 56) # Magic
    THEN Failure("BadMagic")
    ELSE DecodeV1From(buf, UnpackU32(Slice(buf, 0, 4)), 56, << >>)

\* The offset field of trailer record j of a trailer starting at trailer_start.
TrailerOffset(buf, trailer_start, j) ==
    UnpackU32(Slice(buf, trailer_start + 16 * (j - 1), trailer_start + 16 * (j - 1) + 4))

\* Where entry j of n ends in the data region of the given size.
EntryEnd(buf, trailer_start, j, n, size) ==
    IF j = n THEN size ELSE TrailerOffset(buf, trailer_start, j + 1).lo

\* The trailer's offsets fit the data region: the first is 0, each is a
\* multiple of 4, each entry has room for its checksum and reserved bytes, and
\* the entries fill the region.
TrailerConsistent(buf, n) ==
    LET trailer_start == Len(buf) - 16 * n
        size == trailer_start - 32
    IN /\ size % 4 = 0
       /\ n = 0 => size = 0
       /\ n > 0 => TrailerOffset(buf, trailer_start, 1) = Big(0, 0)
       /\ \A j \in 1..n :
             /\ TrailerOffset(buf, trailer_start, j).hi = 0
             /\ TrailerOffset(buf, trailer_start, j).lo % 4 = 0
       /\ \A j \in 1..n :
             TrailerOffset(buf, trailer_start, j).lo + 8
                <= EntryEnd(buf, trailer_start, j, n, size)

\* The data of an entry without its trailing padding: at most three zero
\* bytes are padding.
RECURSIVE StripPadding(_, _)
StripPadding(raw, most) ==
    IF most = 0 \/ raw = << >> \/ raw[Len(raw)] # 0
    THEN raw
    ELSE StripPadding(SubSeq(raw, 1, Len(raw) - 1), most - 1)

\* Entry j of a consistent version 2 buffer.
RecordV2(buf, n, j) ==
    LET trailer_start == Len(buf) - 16 * n
        at == trailer_start + 16 * (j - 1)
        start == 32 + TrailerOffset(buf, trailer_start, j).lo
        stop == 32 + EntryEnd(buf, trailer_start, j, n, trailer_start - 32)
        data == StripPadding(Slice(buf, start + 8, stop), 3)
    IN [data |-> data,
        state |-> UnpackState(Slice(buf, at + 4, at + 8)),
        timestamp_primary |-> UnpackF64(Slice(buf, at + 8, at + 16)),
        valid |-> Crc32(data) = Slice(buf, start, start + 4)]

\* Version 2 decode: a structural error, or the records of the trailer in
\* order.
DecodeV2(buf) ==
    IF Len(buf) < 32
    THEN Failure("Truncated")
    ELSE IF Slice(buf, 0, 4) # Magic
    THEN Failure("BadMagic")
    ELSE LET entry_count == UnpackU32(Slice(buf, 4, 8))
             n == entry_count.lo
         IN IF entry_count.hi > 0 \/ 32 + 16 * n > Len(buf)
            THEN Failure("Truncated")
            ELSE IF ~TrailerConsistent(buf, n)
            THEN Failure("InconsistentTrailer")
            ELSE [error |-> "none", records |-> [j \in 1..n |-> RecordV2(buf, n, j)]]

\* The structural check of version 1: magic at 0x34 and end_offset inside
\* [56, len(bytes)].
V1Check(buf) ==
    /\ Len(buf) >= 56
    /\ Slice(buf, 52, 56) = Magic
    /\ LET end_offset == UnpackU32(Slice(buf, 0, 4))
       IN end_offset.hi = 0 /\ 56 <= end_offset.lo /\ end_offset.lo <= Len(buf)

\* The structural check of version 2: magic at 0, room for the trailer, and a
\* data region the trailer fits.
V2Check(buf) ==
    /\ Len(buf) >= 32
    /\ Slice(buf, 0, 4) = Magic
    /\ LET entry_count == UnpackU32(Slice(buf, 4, 8))
       IN /\ entry_count.hi = 0
          /\ 32 + 16 * entry_count.lo <= Len(buf)
          /\ TrailerConsistent(buf, entry_count.lo)

\* detect_version: the leading magic is looked at first.
DetectVersion(buf) ==
    IF V2Check(buf) THEN "V2" ELSE IF V1Check(buf) THEN "V1" ELSE "UnknownVersion"

\* buf with the byte at offset at replaced by b.
WithByte(buf, at, b) == [buf EXCEPT ![at + 1] = b]

\* ------------------------------------------------------------------ state

VARIABLES
    entries_data,       \* the records to write
    pc,                 \* where the script is
    i,                  \* index of the next record of the running loop
    header_v1, entries_v1, current_offset_v1,
    segb_version1,      \* the bytes written to segb_version1.bin
    header_v2, entries_v2, entry_offsets_v2, current_offset_v2, trailer_v2,
    segb_version2,      \* the bytes written to segb_version2.bin
    reader,             \* the last thing read back, and what the reader made of it
    padding,            \* one application of the padding calculation
    big                 \* the version 1 writer on data given by its length alone

vars == << entries_data, pc, i, header_v1, entries_v1, current_offset_v1,
           segb_version1, header_v2, entries_v2, entry_offsets_v2,
           current_offset_v2, trailer_v2, segb_version2, reader, padding, big >>

v1vars == << header_v1, entries_v1, current_offset_v1, segb_version1 >>
v2vars == << header_v2, entries_v2, entry_offsets_v2, current_offset_v2,
             trailer_v2, segb_version2 >>
others == << padding, big >>

NoReader == [op |-> "none", arg |-> 0, result |-> Failure("none")]
NoPadding == [size |-> 0, alignment |-> 0, padding_needed |-> -1]
NoBig == [pc |-> "idle", lengths |-> << >>, i |-> 1, current_offset |-> Big(0, 0),
          length_fields |-> << >>, end_offset_field |-> << >>]

\* The script's state before its first loop, for the given records.
Start(records, at) ==
    /\ entries_data = records
    /\ pc = at
    /\ i = 1
    /\ header_v1 = HeaderV1Init
    /\ entries_v1 = << >>
    /\ current_offset_v1 = 56
    /\ segb_version1 = << >>
    /\ header_v2 = << >>
    /\ entries_v2 = << >>
    /\ entry_offsets_v2 = << >>
    /\ current_offset_v2 = 0
    /\ trailer_v2 = << >>
    /\ segb_version2 = << >>
    /\ reader = NoReader

Init ==
    /\ \E records \in Inputs : Start(records, "v1_loop")
    /\ padding = NoPadding
    /\ big = NoBig

\* One pass of the version 1 loop; struct.error ends the script.
V1Entry ==
    /\ pc = "v1_loop"
    /\ i <= Len(entries_data)
    /\ IF U32Ok(ToBig(Len(DataBytes(entries_data[i]))))
       THEN LET entry == EntryV1(entries_data[i])
            IN /\ entries_v1' = Append(entries_v1, entry)
               /\ current_offset_v1' = Advance(current_offset_v1, entry)
               /\ i' = i + 1
               /\ pc' = pc
       ELSE /\ pc' = "error"
            /\ UNCHANGED << entries_v1, current_offset_v1, i >>
    /\ UNCHANGED << entries_data, header_v1, segb_version1, v2vars, reader, others >>

\* The end offset goes into the header and the file is written.
V1Write ==
    /\ pc = "v1_loop"
    /\ i > Len(entries_data)
    /\ IF U32Ok(ToBig(current_offset_v1))
       THEN /\ header_v1' = PackU32(ToBig(current_offset_v1)) \o Slice(header_v1, 4, 56)
            /\ segb_version1' = header_v1' \o Join(entries_v1)
            /\ pc' = "v2_header"
       ELSE /\ pc' = "error"
            /\ UNCHANGED << header_v1, segb_version1 >>
    /\ UNCHANGED << entries_data, i, entries_v1, current_offset_v1, v2vars, reader, others >>

\* The version 2 header, with the clock read for the creation timestamp.
V2Header ==
    /\ pc = "v2_header"
    /\ IF U32Ok(ToBig(Len(entries_data)))
       THEN /\ \E now \in ClockTimes :
                  header_v2' = HeaderV2(Len(entries_data), now)
            /\ pc' = "v2_loop"
       ELSE /\ pc' = "error"
            /\ UNCHANGED header_v2
    /\ entries_v2' = << >>
    /\ entry_offsets_v2' = << >>
    /\ current_offset_v2' = 0
    /\ i' = 1
    /\ UNCHANGED << entries_data, v1vars, trailer_v2, segb_version2, reader, others >>

\* One pass of the version 2 loop.
V2Entry ==
    /\ pc = "v2_loop"
    /\ i <= Len(entries_data)
    /\ LET entry == EntryV2(entries_data[i])
       IN /\ entries_v2' = Append(entries_v2, entry)
          /\ entry_offsets_v2' =
                Append(entry_offsets_v2, EntryInfo(current_offset_v2, entry, entries_data[i]))
          /\ current_offset_v2' = Advance(current_offset_v2, entry)
    /\ i' = i + 1
    /\ UNCHANGED << entries_data, pc, v1vars, header_v2, trailer_v2, segb_version2,
                    reader, others >>

\* The trailer is built from entry_offsets_v2.
V2Trailer ==
    /\ pc = "v2_loop"
    /\ i > Len(entries_data)
    /\ IF \A k \in 1..Len(entry_offsets_v2) : U32Ok(ToBig(entry_offsets_v2[k].offset))
       THEN /\ trailer_v2' = TrailerV2(entry_offsets_v2)
            /\ pc' = "v2_write"
       ELSE /\ pc' = "error"
            /\ UNCHANGED trailer_v2
    /\ UNCHANGED << entries_data, i, v1vars, header_v2, entries_v2,
                    entry_offsets_v2, current_offset_v2, segb_version2, reader, others >>

\* The version 2 file is written.
V2Write ==
    /\ pc = "v2_write"
    /\ segb_version2' = header_v2 \o Join(entries_v2) \o trailer_v2
    /\ pc' = "done"
    /\ UNCHANGED << entries_data, i, v1vars, header_v2, entries_v2,
                    entry_offsets_v2, current_offset_v2, trailer_v2, reader, others >>

written == << entries_data, pc, i, v1vars, v2vars, others >>

\* Byte values a corrupted byte may take.
CorruptBytes == {0, 1, 65, 169}

\* The file offset of data byte k (from 0) of version 1 entry e.
DataOffsetV1(e, k) == 56 + SumLen(SubSeq(entries_v1, 1, e - 1)) + 32 + k

\* segb_version1.bin is decoded as written.
ReadV1 ==
    /\ pc = "done"
    /\ reader = NoReader
    /\ reader' = [op |-> "decode_v1", arg |-> 0, result |-> DecodeV1(segb_version1)]
    /\ UNCHANGED written

\* segb_version2.bin is decoded as written.
ReadV2 ==
    /\ pc = "done"
    /\ reader = NoReader
    /\ reader' = [op |-> "decode_v2", arg |-> 0, result |-> DecodeV2(segb_version2)]
    /\ UNCHANGED written

\* One data byte of one version 1 entry is changed, and the file decoded.
CorruptV1 ==
    /\ pc = "done"
    /\ reader = NoReader
    /\ \E e \in 1..Len(entries_data) :
       \E k \in 0..(Len(DataBytes(entries_data[e])) - 1) :
       \E b \in CorruptBytes \ { DataBytes(entries_data[e])[k + 1] } :
          reader' = [op |-> "corrupt_v1", arg |-> e,
                     result |-> DecodeV1(WithByte(segb_version1, DataOffsetV1(e, k), b))]
    /\ UNCHANGED written

\* The version 2 file loses its last cut bytes, a part of its trailer, and is
\* decoded.
TruncateV2 ==
    /\ pc = "done"
    /\ reader = NoReader
    /\ \E cut \in 1..(16 * Len(entries_data) - 1) :
          reader' = [op |-> "truncate_v2", arg |-> cut,
                     result |-> DecodeV2(SubSeq(segb_version2, 1, Len(segb_version2) - cut))]
    /\ UNCHANGED written

\* Both files are classified.
Detect ==
    /\ pc = "done"
    /\ reader = NoReader
    /\ reader' = [op |-> "detect_version", arg |-> 0,
                  result |-> [error |-> "none",
                              records |-> << DetectVersion(segb_version1),
                                             DetectVersion(segb_version2) >>]]
    /\ UNCHANGED written

Next ==
    \/ V1Entry \/ V1Write \/ V2Header \/ V2Entry \/ V2Trailer \/ V2Write
    \/ ReadV1 \/ ReadV2 \/ CorruptV1 \/ TruncateV2 \/ Detect

Spec == Init /\ [][Next]_vars

\* ------------------------------------------------- the padding calculation

InitPad ==
    /\ Start(<< >>, "idle")
    /\ \E size \in 0..MaxSize, alignment \in {4, 8} :
          padding = [size |-> size, alignment |-> alignment, padding_needed |-> -1]
    /\ big = NoBig

\* padding_needed = (alignment - (len(entry) % alignment)) % alignment
ApplyPadding ==
    /\ padding.padding_needed = -1
    /\ padding' = [padding EXCEPT
                     !.padding_needed = PaddingNeeded(padding.size, padding.alignment)]
    /\ UNCHANGED << entries_data, pc, i, v1vars, v2vars, reader, big >>

NextPad == ApplyPadding

SpecPad == InitPad /\ [][NextPad]_vars

\* --------------------------------------- version 1 on data of any length

\* Data lengths around the ends of the unsigned 32-bit range.
BigLengths ==
    { Big(0, 0), Big(0, 5), Big(32768, 0), Big(65535, 65480), Big(65535, 65535),
      Big(65536, 0), Big(65536, 5) }

InitBig ==
    /\ Start(<< >>, "idle")
    /\ padding = NoPadding
    /\ \E lengths \in UNION { [1..n -> BigLengths] : n \in 0..MaxBigRecords } :
          big = [NoBig EXCEPT !.pc = "v1_loop", !.lengths = lengths,
                              !.current_offset = Big(0, 56)]

\* len(entry) for data of the given length: header, data, padding to 8.
BigEntryLen(data_length) ==
    LET unpadded == BigAdd(Big(0, 32), data_length)
    IN BigAdd(unpadded, Big(0, PaddingNeeded(BigMod(unpadded, 8), 8)))

\* One pass of the version 1 loop, the entry known by its length.
BigV1Entry ==
    /\ big.pc = "v1_loop"
    /\ big.i <= Len(big.lengths)
    /\ LET data_length == big.lengths[big.i]
       IN IF U32Ok(data_length)
          THEN big' = [big EXCEPT
                         !.length_fields = Append(@, PackU32(data_length)),
                         !.current_offset = BigAdd(@, BigEntryLen(data_length)),
                         !.i = @ + 1]
          ELSE big' = [big EXCEPT !.pc = "error"]
    /\ UNCHANGED << entries_data, pc, i, v1vars, v2vars, reader, padding >>

\* The end offset goes into the header and the file is written.
BigV1Write ==
    /\ big.pc = "v1_loop"
    /\ big.i > Len(big.lengths)
    /\ IF U32Ok(big.current_offset)
       THEN big' = [big EXCEPT !.end_offset_field = PackU32(big.current_offset),
                               !.pc = "written"]
       ELSE big' = [big EXCEPT !.pc = "error"]
    /\ UNCHANGED << entries_data, pc, i, v1vars, v2vars, reader, padding >>

NextBig == BigV1Entry \/ BigV1Write

SpecBig == InitBig /\ [][NextBig]_vars

\* ---------------------------------------------------------------- claims

\* The least multiple of a that is at least n, found by search.
RoundUp(n, a) == CHOOSE m \in n..(n + a - 1) : m % a = 0

\* The bytes records 1..k take in a file whose entries carry fixed bytes
\* before the data and are aligned to a.
RECURSIVE PaddedSizes(_, _, _, _)
PaddedSizes(records, k, fixed, a) ==
    IF k = 0 THEN 0
    ELSE RoundUp(fixed + Len(DataBytes(records[k])), a)
            + PaddedSizes(records, k - 1, fixed, a)

NumRecords == Len(entries_data)

V1Written == pc \in {"v2_header", "v2_loop", "v2_write", "done"}

\* C2: the end_offset in header bytes [0x00:0x04) of the version 1 file is 56
\* plus the sum of (32 + data length + padding) over all entries, and is the
\* length of the written file; while the loop runs the accumulator is 56 plus
\* the bytes of the entries emitted so far.
C2_EndOffsetIsFileLength ==
    /\ pc = "v1_loop" =>
          /\ current_offset_v1 = 56 + PaddedSizes(entries_data, i - 1, 32, 8)
          /\ current_offset_v1 = 56 + SumLen(entries_v1)
    /\ V1Written =>
          /\ UnpackU32(Slice(segb_version1, 0, 4))
                = ToBig(56 + PaddedSizes(entries_data, NumRecords, 32, 8))
          /\ UnpackU32(Slice(segb_version1, 0, 4)) = ToBig(Len(segb_version1))

C2_Witness ==
    /\ V1Written
    /\ NumRecords = 2
    /\ Len(DataBytes(entries_data[1])) = 1
    /\ Len(DataBytes(entries_data[2])) = 0
    /\ Len(segb_version1) = 128

\* C3: every entry starts and ends on a multiple of 8 in the version 1 file
\* and on a multiple of 4 in the version 2 file, there both counted from the
\* start of the file and from the end of the 32-byte header.
C3_EntriesAligned ==
    /\ \A k \in 1..Len(entries_v1) :
          LET start == 56 + SumLen(SubSeq(entries_v1, 1, k - 1))
          IN start % 8 = 0 /\ (start + Len(entries_v1[k])) % 8 = 0
    /\ \A k \in 1..Len(entries_v2) :
          LET start == SumLen(SubSeq(entries_v2, 1, k - 1))
          IN /\ start % 4 = 0 /\ (start + Len(entries_v2[k])) % 4 = 0
             /\ (32 + start) % 4 = 0 /\ (32 + start + Len(entries_v2[k])) % 4 = 0

C3_Witness ==
    /\ Len(entries_v1) = 2
    /\ Len(entries_v2) = 2
    /\ Len(DataBytes(entries_data[1])) = 1
    /\ Len(entries_v1[1]) = 40
    /\ Len(entries_v2[1]) = 12

\* C4: in the version 2 file of n records the entry_count field is n, the
\* trailer is n * 16 bytes and ends the file, and the file is 32 bytes plus the
\* padded entries plus n * 16 bytes long.
C4_TrailerSize ==
    pc = "done" =>
        /\ UnpackU32(Slice(segb_version2, 4, 8)) = ToBig(NumRecords)
        /\ Len(trailer_v2) = NumRecords * 16
        /\ Slice(segb_version2, Len(segb_version2) - NumRecords * 16, Len(segb_version2))
              = trailer_v2
        /\ Len(segb_version2)
              = 32 + PaddedSizes(entries_data, NumRecords, 8, 4) + NumRecords * 16

C4_Witness ==
    /\ pc = "done"
    /\ NumRecords = 2
    /\ Len(trailer_v2) = 32
    /\ Len(segb_version2) = 88

\* Trailer record j of the written version 2 file.
TrailerBytes(j) ==
    LET at == Len(segb_version2) - 16 * NumRecords + 16 * (j - 1)
    IN Slice(segb_version2, at, at + 16)

\* C5: trailer record j of the version 2 file describes input record j: its
\* offset is the sum of the padded sizes of the entries before it (0 for the
\* first, growing strictly), the entry's checksum starts at file offset
\* 32 + offset and its data 8 bytes later, and its state and timestamp are
\* those of record j.
C5_TrailerDescribesEntries ==
    pc = "done" =>
        \A j \in 1..NumRecords :
            LET offset == PaddedSizes(entries_data, j - 1, 8, 4)
                data == DataBytes(entries_data[j])
            IN /\ UnpackU32(Slice(TrailerBytes(j), 0, 4)) = ToBig(offset)
               /\ j = 1 => offset = 0
               /\ j > 1 => offset > PaddedSizes(entries_data, j - 2, 8, 4)
               /\ Slice(segb_version2, 32 + offset, 32 + offset + 4) = Crc32(data)
               /\ Slice(segb_version2, 32 + offset + 8, 32 + offset + 8 + Len(data)) = data
               /\ Slice(TrailerBytes(j), 4, 8) = << 1, 0, 0, 0 >>
               /\ Slice(TrailerBytes(j), 8, 16) = PackF64(Timestamp(entries_data[j]))

C5_Witness ==
    /\ pc = "done"
    /\ NumRecords = 2
    /\ Timestamp(entries_data[1]) # Timestamp(entries_data[2])
    /\ DataBytes(entries_data[1]) = << 195, 169 >>
    /\ DataBytes(entries_data[2]) = << 0 >>
    /\ UnpackU32(Slice(TrailerBytes(2), 0, 4)) = Big(0, 12)

\* C10: the padding calculation gives the least p >= 0 with (s + p) % a = 0:
\* it is below a, and 0 for a size that is a multiple of a.
C10_LeastPadding ==
    padding.padding_needed # -1 =>
        LET p == padding.padding_needed
            s == padding.size
            a == padding.alignment
        IN /\ p \in 0..(a - 1)
           /\ (s + p) % a = 0
           /\ \A q \in 0..(p - 1) : (s + q) % a # 0
           /\ s % a = 0 => p = 0

C10_Witness ==
    /\ padding.size = 40
    /\ padding.alignment = 8
    /\ padding.padding_needed = 0

\* a < 2^32, for a >= 0.
BelowTwoPow32(a) == a.hi < 65536

\* 56 plus the entries of the first k lengths: 32 + length, rounded up to 8.
RECURSIVE BigEndOffset(_, _)
BigEndOffset(lengths, k) ==
    IF k = 0 THEN Big(0, 56)
    ELSE LET unpadded == BigAdd(Big(0, 32), lengths[k])
             rounded == BigAdd(unpadded, Big(0, RoundUp(unpadded.lo, 8) - unpadded.lo))
         IN BigAdd(BigEndOffset(lengths, k - 1), rounded)

\* C6: the version 1 writer writes a file only when every data length and the
\* end offset fit an unsigned 32-bit field, and then each field holds the true
\* value; it ends in struct.error, with nothing written, exactly when a length
\* or the end offset does not fit.
C6_NoSilentTruncation ==
    /\ big.pc = "written" =>
          /\ \A k \in 1..Len(big.lengths) :
                /\ BelowTwoPow32(big.lengths[k])
                /\ UnpackU32(big.length_fields[k]) = big.lengths[k]
          /\ BelowTwoPow32(BigEndOffset(big.lengths, Len(big.lengths)))
          /\ UnpackU32(big.end_offset_field) = BigEndOffset(big.lengths, Len(big.lengths))
    /\ big.pc = "error" =>
          /\ big.end_offset_field = << >>
          /\ \/ big.i <= Len(big.lengths) /\ ~BelowTwoPow32(big.lengths[big.i])
             \/ big.i > Len(big.lengths)
                   /\ ~BelowTwoPow32(BigEndOffset(big.lengths, Len(big.lengths)))
    /\ big.pc = "v1_loop" =>
          big.current_offset = BigEndOffset(big.lengths, big.i - 1)

\* An error for an end offset that does not fit although every length does.
C6_Witness ==
    /\ big.pc = "error"
    /\ Len(big.lengths) = 2
    /\ \A k \in 1..2 : BelowTwoPow32(big.lengths[k])
    /\ big.lengths[1] = Big(32768, 0)
    /\ Len(big.length_fields) = 2

\* The decoded records carry the data of the records written, in order.
SameData(result) ==
    /\ result.error = "none"
    /\ Len(result.records) = NumRecords
    /\ \A k \in 1..NumRecords : result.records[k].data = DataBytes(entries_data[k])

\* C1: decoding the file the writer produced gives the same number of records
\* with the same data bytes in the same order, for version 1 and for
\* version 2, whatever the data (empty, of a length that is no multiple of the
\* alignment, ending in zero bytes).
C1_RoundTrip ==
    reader.op \in {"decode_v1", "decode_v2"} => SameData(reader.result)

\* The version 1 half of C1: the length is read from the entry header.
C1_RoundTripV1 ==
    reader.op = "decode_v1" =>
        /\ SameData(reader.result)
        /\ \A k \in 1..NumRecords :
              /\ reader.result.records[k].valid
              /\ reader.result.records[k].state = "Written"
              /\ reader.result.records[k].timestamp_primary
                    = F64Bits(Timestamp(entries_data[k]))
              /\ reader.result.records[k].timestamp_secondary
                    = F64Bits(Timestamp(entries_data[k]))

\* The version 2 half of C1 for data that does not end in a zero byte.
C1_RoundTripV2NoTrailingZero ==
    ( /\ reader.op = "decode_v2"
      /\ \A k \in 1..NumRecords :
            LET data == DataBytes(entries_data[k])
            IN data = << >> \/ data[Len(data)] # 0 )
    => /\ SameData(reader.result)
       /\ \A k \in 1..NumRecords : reader.result.records[k].valid

\* C7: with one data byte of one version 1 entry changed, decode still returns
\* every record; the changed entry is flagged invalid, and every other record
\* is valid and carries its original data, in order.
C7_CorruptionIsPerRecord ==
    reader.op = "corrupt_v1" =>
        /\ reader.result.error = "none"
        /\ Len(reader.result.records) = NumRecords
        /\ \A k \in 1..NumRecords :
              IF k = reader.arg
              THEN /\ ~reader.result.records[k].valid
                   /\ reader.result.records[k].data # DataBytes(entries_data[k])
                   /\ Len(reader.result.records[k].data) = Len(DataBytes(entries_data[k]))
              ELSE /\ reader.result.records[k].valid
                   /\ reader.result.records[k].data = DataBytes(entries_data[k])

C7_Witness ==
    /\ reader.op = "corrupt_v1"
    /\ NumRecords = 2
    /\ reader.arg = 1
    /\ Len(DataBytes(entries_data[1])) = 1
    /\ DataBytes(entries_data[2]) # << >>
    /\ ~reader.result.records[1].valid
    /\ reader.result.records[2].valid

\* C8: a version 2 file cut anywhere inside its trailer does not decode: the
\* result is Truncated or InconsistentTrailer, never a list of records.
C8_TruncationIsDetected ==
    reader.op = "truncate_v2" =>
        reader.result.error \in {"Truncated", "InconsistentTrailer"}

====
